---- MODULE Spec2Model ----
(***************************************************************************)
(* Model of the autonomous agent driver: the bash command gate             *)
(* (security.py), one agent session (agent.py, run_agent_session), the     *)
(* session loop (agent.py, run_autonomous_agent) and the command-line      *)
(* entry point (autonomous_agent.py, main).                                *)
(*                                                                         *)
(* Python strings that the code inspects character by character (commands, *)
(* patterns, reasons) are sequences of one-character strings.              *)
(***************************************************************************)
EXTENDS Integers, Sequences, FiniteSets, TLC

\* ------------------------------------------------------------------------
\* Bounds of the model
\* ------------------------------------------------------------------------

\* Commands handed to the gate are concatenations of at most MaxPieces pieces.
MaxPieces == 3

\* Largest max_iterations a run is started with.
MaxIterations == 3

\* Largest number of messages the agent streams in one session.
MaxEvents == 2

\* ------------------------------------------------------------------------
\* security.py: the two static lists
\* ------------------------------------------------------------------------

ALLOWED_COMMANDS ==
    { <<"l", "s">>,
      <<"c", "a", "t">>,
      <<"h", "e", "a", "d">>,
      <<"t", "a", "i", "l">>,
      <<"w", "c">>,
      <<"g", "r", "e", "p">>,
      <<"f", "i", "n", "d">>,
      <<"c", "p">>,
      <<"m", "k", "d", "i", "r">>,
      <<"c", "h", "m", "o", "d">>,
      <<"p", "w", "d">>,
      <<"t", "r", "e", "e">>,
      <<"d", "i", "f", "f">>,
      <<"n", "p", "m">>,
      <<"n", "o", "d", "e">>,
      <<"n", "p", "x">>,
      <<"t", "s", "x">>,
      <<"g", "i", "t">>,
      <<"p", "s">>,
      <<"l", "s", "o", "f">>,
      <<"p", "k", "i", "l", "l">>,
      <<"s", "l", "e", "e", "p">>,
      <<"c", "u", "r", "l">>,
      <<"t", "s", "c">>,
      <<"j", "e", "s", "t">>,
      <<"v", "i", "t", "e", "s", "t">>,
      <<"e", "s", "b", "u", "i", "l", "d">>,
      <<"v", "i", "t", "e">> }

BLOCKED_PATTERNS ==
    << <<"r", "m", " ", "-", "r", "f", " ", "/">>,
       <<"r", "m", " ", "-", "r", "f", " ", "~">>,
       <<"r", "m", " ", "-", "r", "f", " ", "/", "*">>,
       <<">", " ", "/", "d", "e", "v", "/">>,
       <<"|", " ", "r", "m">>,
       <<";", " ", "r", "m">>,
       <<"&", "&", " ", "r", "m", " ", "-", "r", "f">>,
       <<"s", "u", "d", "o">>,
       <<"c", "h", "m", "o", "d", " ", "7", "7", "7">>,
       <<"c", "u", "r", "l", " ", "|", " ", "b", "a", "s", "h">>,
       <<"c", "u", "r", "l", " ", "|", " ", "s", "h">>,
       <<"w", "g", "e", "t", " ", "|", " ", "b", "a", "s", "h">>,
       <<"w", "g", "e", "t", " ", "|", " ", "s", "h">>,
       <<"e", "v", "a", "l">>,
       <<"$", "(", "c", "u", "r", "l">>,
       <<"$", "(", "w", "g", "e", "t">>,
       <<"m", "k", "f", "s">>,
       <<"d", "d", " ", "i", "f", "=">>,
       <<":", "(", ")", "{">>,
       <<">", "/", "d", "e", "v", "/", "s", "d", "a">>,
       <<">", "/", "d", "e", "v", "/", "n", "u", "l", "l", " ", "2", ">", "&", "1", " ", "&">> >>

\* The reason texts of is_command_allowed and contains_blocked_pattern.
EmptyCommandReason == <<"E", "m", "p", "t", "y", " ", "c", "o", "m", "m", "a", "n", "d">>

BlockedReasonPrefix == <<"C", "o", "n", "t", "a", "i", "n", "s", " ", "b", "l", "o", "c", "k", "e", "d", " ", "p", "a", "t", "t", "e", "r", "n", ":", " ">>

UnparsedReason == <<"C", "o", "u", "l", "d", " ", "n", "o", "t", " ", "p", "a", "r", "s", "e", " ", "c", "o", "m", "m", "a", "n", "d">>

NotAllowedPrefix == <<"C", "o", "m", "m", "a", "n", "d", " ", "'">>

NotAllowedSuffix == <<"'", " ", "i", "s", " ", "n", "o", "t", " ", "i", "n", " ", "a", "l", "l", "o", "w", "l", "i", "s", "t">>

\* ------------------------------------------------------------------------
\* Python string primitives used by security.py
\* ------------------------------------------------------------------------

UpperLetters ==
    <<"A", "B", "C", "D", "E", "F", "G", "H", "I", "J", "K", "L", "M",
      "N", "O", "P", "Q", "R", "S", "T", "U", "V", "W", "X", "Y", "Z">>

LowerLetters ==
    <<"a", "b", "c", "d", "e", "f", "g", "h", "i", "j", "k", "l", "m",
      "n", "o", "p", "q", "r", "s", "t", "u", "v", "w", "x", "y", "z">>

\* One character of str.lower().
LowerChar(c) ==
    IF \E i \in 1..Len(UpperLetters) : UpperLetters[i] = c
    THEN LowerLetters[CHOOSE i \in 1..Len(UpperLetters) : UpperLetters[i] = c]
    ELSE c

\* str.lower()
Lower(s) == [i \in 1..Len(s) |-> LowerChar(s[i])]

\* The characters str.strip() and str.split() treat as whitespace.
Whitespace == {" ", "\t", "\n"}

\* "not command.strip()": nothing but whitespace.
IsBlank(s) == \A i \in 1..Len(s) : s[i] \in Whitespace

\* p in s
IsSubstring(p, s) ==
    \E i \in 0..(Len(s) - Len(p)) : \A j \in 1..Len(p) : s[i + j] = p[j]

\* str.split() from position i on: cur is the token being read, acc the
\* tokens read so far.  Runs of whitespace separate tokens and give no
\* empty token.
RECURSIVE SplitFrom(_, _, _, _)
SplitFrom(s, i, cur, acc) ==
    IF i > Len(s)
    THEN IF cur = <<>> THEN acc ELSE Append(acc, cur)
    ELSE IF s[i] \in Whitespace
         THEN SplitFrom(s, i + 1, <<>>, IF cur = <<>> THEN acc ELSE Append(acc, cur))
         ELSE SplitFrom(s, i + 1, Append(cur, s[i]), acc)

\* command.strip().split()
Split(s) == SplitFrom(s, 1, <<>>, <<>>)

\* part.split("/")[-1]
LastPathSegment(part) ==
    LET slashes == {i \in 1..Len(part) : part[i] = "/"}
    IN  IF slashes = {} THEN part
        ELSE SubSeq(part, (CHOOSE i \in slashes : \A j \in slashes : j <= i) + 1, Len(part))

\* "=" in part
HasEquals(part) == \E i \in 1..Len(part) : part[i] = "="

\* part.startswith("-")
StartsWithDash(part) == Len(part) > 0 /\ part[1] = "-"

\* ------------------------------------------------------------------------
\* security.py: the gate
\* ------------------------------------------------------------------------

\* get_command_name that takes the first part, assignment or not.
get_command_name_NoEnvSkip(command) ==
    LET parts == Split(command)
    IN  IF parts = <<>> THEN <<>> ELSE LastPathSegment(parts[1])

\* get_command_name that keeps the directory prefix of the part it finds.
get_command_name_KeepsPath(command) ==
    LET parts == Split(command)
        found == {i \in 1..Len(parts) : ~HasEquals(parts[i]) \/ StartsWithDash(parts[i])}
    IN  IF found = {} THEN <<>>
        ELSE parts[CHOOSE i \in found : \A j \in found : i <= j]

\* get_command_name: the first part that holds no "=" or starts with "-",
\* without its directory prefix; "" when every part is an assignment.
get_command_name(command) ==
    LET parts == Split(command)
        found == {i \in 1..Len(parts) : ~HasEquals(parts[i]) \/ StartsWithDash(parts[i])}
    IN  IF found = {} THEN <<>>
        ELSE LastPathSegment(parts[CHOOSE i \in found : \A j \in found : i <= j])

\* pattern.lower(), for each pattern of the list
PatternsLower == [i \in 1..Len(BLOCKED_PATTERNS) |-> Lower(BLOCKED_PATTERNS[i])]

\* contains_blocked_pattern that compares without lower-casing the command.
contains_blocked_pattern_CaseSensitive(command) ==
    LET hits == {i \in 1..Len(BLOCKED_PATTERNS) :
                    IsSubstring(PatternsLower[i], command)}
    IN  IF hits = {} THEN <<FALSE, <<>>>>
        ELSE <<TRUE, BlockedReasonPrefix \o
                     BLOCKED_PATTERNS[CHOOSE i \in hits : \A j \in hits : i <= j]>>

\* contains_blocked_pattern: <<is_blocked, reason>> for the first pattern of
\* the list found in the lower-cased command.
contains_blocked_pattern(command) ==
    LET command_lower == Lower(command)
        hits == {i \in 1..Len(BLOCKED_PATTERNS) :
                    IsSubstring(PatternsLower[i], command_lower)}
    IN  IF hits = {} THEN <<FALSE, <<>>>>
        ELSE <<TRUE, BlockedReasonPrefix \o
                     BLOCKED_PATTERNS[CHOOSE i \in hits : \A j \in hits : i <= j]>>

\* is_command_allowed: <<is_allowed, reason>>
is_command_allowed(command) ==
    IF command = <<>> \/ IsBlank(command)
    THEN <<FALSE, EmptyCommandReason>>
    ELSE LET blocked == contains_blocked_pattern(command)
             base_cmd == get_command_name(command)
         IN  IF blocked[1] THEN <<FALSE, blocked[2]>>
             ELSE IF base_cmd = <<>> THEN <<FALSE, UnparsedReason>>
             ELSE IF base_cmd \in ALLOWED_COMMANDS THEN <<TRUE, <<>>>>
             ELSE <<FALSE, NotAllowedPrefix \o base_cmd \o NotAllowedSuffix>>

\* ------------------------------------------------------------------------
\* client.py: the PreToolUse hook
\* ------------------------------------------------------------------------

\* The order of sorted() on strings of lower-case letters.
CharRank(c) == CHOOSE i \in 1..Len(LowerLetters) : LowerLetters[i] = c

RECURSIVE StrLess(_, _)
StrLess(a, b) ==
    IF b = <<>> THEN FALSE
    ELSE IF a = <<>> THEN TRUE
    ELSE IF Head(a) = Head(b) THEN StrLess(Tail(a), Tail(b))
    ELSE CharRank(Head(a)) < CharRank(Head(b))

\* sorted(S)
RECURSIVE Sorted(_)
Sorted(S) ==
    IF S = {} THEN <<>>
    ELSE LET least == CHOOSE x \in S : \A y \in S \ {x} : StrLess(x, y)
         IN  <<least>> \o Sorted(S \ {least})

\* get_allowed_commands_list: sorted(ALLOWED_COMMANDS)
get_allowed_commands_list == Sorted(ALLOWED_COMMANDS)

\* sep.join(items)
RECURSIVE JoinWith(_, _)
JoinWith(sep, items) ==
    IF items = <<>> THEN <<>>
    ELSE IF Len(items) = 1 THEN Head(items)
    ELSE Head(items) \o sep \o JoinWith(sep, Tail(items))

\* ", ".join(get_allowed_commands_list())
AllowedCmdsText == JoinWith(<<",", " ">>, get_allowed_commands_list)

EmptyNotAllowedReason == <<"E", "m", "p", "t", "y", " ", "c", "o", "m", "m", "a", "n", "d", " ", "n", "o", "t", " ", "a", "l", "l", "o", "w", "e", "d">>

CommandBlockedPrefix == <<"C", "o", "m", "m", "a", "n", "d", " ", "b", "l", "o", "c", "k", "e", "d", ":", " ">>

AllowedListInfix == <<".", " ", "A", "l", "l", "o", "w", "e", "d", ":", " ">>

\* The empty dict the hook returns to allow.
HookAllow == [permissionDecision |-> "allow", permissionDecisionReason |-> <<>>]

\* The permission denial dict.
HookDeny(reason) == [permissionDecision |-> "deny", permissionDecisionReason |-> reason]

\* validate_bash_hook that denies without passing the gate's reason on.
validate_bash_hook_DropsReason(tool, cmd) ==
    IF tool # "Bash" THEN HookAllow
    ELSE IF cmd = <<>> THEN HookDeny(<<>>)
    ELSE IF ~is_command_allowed(cmd)[1]
         THEN HookDeny(CommandBlockedPrefix \o AllowedListInfix \o AllowedCmdsText)
         ELSE HookAllow

\* validate_bash_hook, for tool_name tool and tool_input.get("command", "") cmd.
validate_bash_hook(tool, cmd) ==
    IF tool # "Bash" THEN HookAllow
    ELSE IF cmd = <<>> THEN HookDeny(EmptyNotAllowedReason)
    ELSE LET result == is_command_allowed(cmd)
         IN  IF ~result[1]
             THEN HookDeny(CommandBlockedPrefix \o result[2] \o
                           AllowedListInfix \o AllowedCmdsText)
             ELSE HookAllow

\* The tools whose requests reach the hook.
ToolNames == {"Bash", "Read"}

\* ------------------------------------------------------------------------
\* The commands the gate is asked about
\* ------------------------------------------------------------------------

Pieces ==
    { <<"s", "u", "d", "o", " ">>,
      <<"S", "U", "D", "O", " ">>,
      <<"n", "p", "m", " ">>,
      <<"c", "u", "r", "l", " ">>,
      <<"w", "g", "e", "t", " ">>,
      <<"|", " ">>,
      <<"b", "a", "s", "h">>,
      <<"x", " ">>,
      <<";", " ">>,
      <<"F", "O", "O", "=", "b", "a", "r", " ">>,
      <<"/", "u", "s", "r", "/", "b", "i", "n", "/">>,
      <<" ">>,
      <<"l", "s">>,
      <<"/", "a", "=", "b", "/">> }

\* The commands the specification names.
Scenarios ==
    { <<"r", "m", " ", "-", "r", "f", " ", "/">>,
      <<"g", "i", "t", " ", "s", "t", "a", "t", "u", "s">>,
      <<"c", "u", "r", "l", " ", "h", "t", "t", "p", ":", "/", "/", "x", " ", "|", " ", "b", "a", "s", "h">>,
      <<"f", "o", "o", "b", "a", "r", " ", "-", "-", "v", "e", "r", "s", "i", "o", "n">>,
      <<"s", "u", "d", "o", " ", "n", "p", "m", " ", "i", "n", "s", "t", "a", "l", "l">>,
      <<"N", "O", "D", "E", "_", "E", "N", "V", "=", "t", "e", "s", "t", " ", "n", "p", "m", " ", "t", "e", "s", "t">>,
      <<"N", "O", "D", "E", "_", "E", "N", "V", "=", "t", "e", "s", "t", " ", "s", "u", "d", "o", " ", "n", "p", "m", " ", "t", "e", "s", "t">>,
      <<"F", "O", "O", "=", "b", "a", "r", " ", "B", "A", "Z", "=", "q", "u", "x", " ", "g", "i", "t", " ", "s", "t", "a", "t", "u", "s">>,
      <<"/", "u", "s", "r", "/", "b", "i", "n", "/", "n", "o", "d", "e", " ", "x", ".", "j", "s">>,
      <<"n", "o", "d", "e", " ", "x", ".", "j", "s">>,
      <<" ", " ", " ">>,
      <<"l", "s", ";", " ", "w", "g", "e", "t", " ", "x">>,
      <<"G", "i", "t", " ", "s", "t", "a", "t", "u", "s">>,
      <<"/", "a", "=", "b", "/", "n", "o", "d", "e", " ", "x", ".", "j", "s">>,
      <<"-", "e", "=", "1", " ", "n", "p", "m", " ", "t", "e", "s", "t">>,
      <<"b", "i", "n", "/">>,
      <<"F", "O", "O", "=", "b", "a", "r">>,
      <<"/", "o", "p", "t", "/", "s", "u", "d", "o", "/", "n", "o", "d", "e", " ", "x", ".", "j", "s">> }



RECURSIVE Concat(_)
Concat(ps) == IF ps = <<>> THEN <<>> ELSE Head(ps) \o Concat(Tail(ps))

Commands ==
    Scenarios \cup
    {Concat(ps) : ps \in UNION {[1..n -> Pieces] : n \in 0..MaxPieces}}

\* ------------------------------------------------------------------------
\* State
\* ------------------------------------------------------------------------

VARIABLES
    command,        \* the command string handed to the gate
    gate,           \* "off" | "asked" | "decided": position of the gate call
    decision,       \* <<is_allowed, reason>> returned by is_command_allowed
    tool_name,      \* input_data["tool_name"] of the PreToolUse hook
    hook,           \* the result of validate_bash_hook
    caller,         \* "off" | "main" | "api": who calls run_autonomous_agent
    env_key,        \* LINEAR_API_KEY is set in the environment
    dir_exists,     \* the project directory exists
    skip_init,      \* args.skip_init
    max_iterations, \* parameter of run_autonomous_agent
    init_only,      \* parameter of run_autonomous_agent
    marker,         \* <project_dir>/.linear_project.json exists
    pc,             \* position of the driver
    iteration,      \* local of run_autonomous_agent
    is_first_run,   \* local of run_autonomous_agent
    mode,           \* "none" | "INITIALIZER" | "CODING": the prompt selected
    client,         \* the session's client: its index in clients, 0 before any
    clients,        \* the clients created so far, each "created" | "open" | "closed"
    events,         \* messages received in the running session
    received,       \* history: the messages the running session has consumed
    full_response,  \* local of run_agent_session: the text blocks so far
    status,         \* status returned by the last run_agent_session
    response,       \* response text returned by the last run_agent_session
    sleeping,       \* seconds of the asyncio.sleep in progress (0: none)
    log,            \* history: one [mode, status] per run_agent_session call
    interrupted,    \* history: an external interrupt was delivered
    exc,            \* <<>> or <<[kind, site]>>: exception that left run_autonomous_agent
    reported,       \* <<>> or <<n>>: "Total sessions: n" of the final summary
    exit_code       \* <<>> or <<n>>: sys.exit status of the process

gateVars == <<command, gate, decision, tool_name, hook>>

paramVars == <<caller, env_key, dir_exists, skip_init, max_iterations, init_only>>

sessionVars ==
    <<client, clients, events, received, full_response, status, response>>

loopVars == <<pc, iteration, is_first_run, mode, sleeping, log, interrupted,
              exc, reported, exit_code>>

vars == <<gateVars, paramVars, marker, sessionVars, loopVars>>

\* ------------------------------------------------------------------------
\* Program constants
\* ------------------------------------------------------------------------

AUTO_CONTINUE_DELAY_SECONDS == 3

\* asyncio.sleep(10) after a session that ended in error
ERROR_RETRY_DELAY_SECONDS == 10

\* The parameters run_autonomous_agent declares.
RunAutonomousAgentParams == {"project_dir", "model", "max_iterations", "init_only"}

\* The keyword arguments main passes to run_autonomous_agent.
MainCallKeywords == {"project_dir", "model", "max_iterations", "init_only", "skip_init"}

\* The text blocks the agent may send.
Texts == {<<"o", "k">>, <<"!">>}

TextBlock(t) == [type |-> "TextBlock", text |-> t]

ToolUseBlock == [type |-> "ToolUseBlock", text |-> <<>>]

ToolResultBlock == [type |-> "ToolResultBlock", text |-> <<>>]

\* The contents of the AssistantMessages the agent may send.
Contents ==
    {<<TextBlock(t)>> : t \in Texts} \cup
    {<<ToolUseBlock>>, <<ToolResultBlock>>,
     <<TextBlock(<<"o", "k">>), ToolUseBlock, TextBlock(<<"!">>)>>}

\* The error field of the ResultMessages the agent may send: absent or
\* empty (both false in "hasattr(message, 'error') and message.error"), or set.
NoError == <<>>

ResultErrors == {NoError, <<"b", "o", "o", "m">>}

\* str(e) of a fault raised inside the session
FaultText == <<"f", "a", "u", "l", "t">>

UserInterrupted == <<"U", "s", "e", "r", " ", "i", "n", "t", "e", "r", "r", "u", "p", "t", "e", "d">>

\* ------------------------------------------------------------------------
\* Initial states
\* ------------------------------------------------------------------------

GateOff ==
    /\ command = <<>> /\ gate = "off" /\ decision = <<FALSE, <<>>>>
    /\ tool_name = "none" /\ hook = HookAllow

SessionIdle ==
    /\ client = 0 /\ clients = <<>> /\ events = 0 /\ received = <<>>
    /\ full_response = <<>> /\ status = "none" /\ response = <<>>

LoopIdle ==
    /\ iteration = 0 /\ is_first_run = FALSE /\ mode = "none" /\ sleeping = 0
    /\ log = <<>> /\ interrupted = FALSE /\ exc = <<>> /\ reported = <<>>
    /\ exit_code = <<>>

\* The process is started from the command line (main), or another caller
\* calls run_autonomous_agent with the parameters it declares (api).
Init ==
    /\ GateOff
    /\ caller \in {"main", "api"}
    /\ max_iterations \in 0..MaxIterations
    /\ init_only \in BOOLEAN
    /\ marker \in BOOLEAN
    /\ IF caller = "main"
       THEN env_key \in BOOLEAN /\ dir_exists \in BOOLEAN /\ skip_init \in BOOLEAN
       ELSE env_key = TRUE /\ dir_exists = TRUE /\ skip_init = FALSE
    /\ pc = IF caller = "main" THEN "main" ELSE "call"
    /\ SessionIdle
    /\ LoopIdle

\* The gate is asked about one command: by a direct call of
\* is_command_allowed, or by the hook on a tool request (a Bash request
\* with any command, another tool's request with one of the scenarios).
GateInit ==
    /\ \/ tool_name = "Bash" /\ command \in Commands
       \/ tool_name \in ToolNames \ {"Bash"} /\ command \in Scenarios
    /\ gate = "asked" /\ decision = <<FALSE, <<>>>> /\ hook = HookAllow
    /\ caller = "off" /\ env_key = TRUE /\ dir_exists = TRUE /\ skip_init = FALSE
    /\ max_iterations = 0 /\ init_only = FALSE /\ marker = FALSE
    /\ pc = "off"
    /\ SessionIdle
    /\ LoopIdle

\* ------------------------------------------------------------------------
\* The gate call
\* ------------------------------------------------------------------------

Evaluate ==
    /\ gate = "asked"
    /\ decision' = is_command_allowed(command)
    /\ gate' = "decided"
    /\ UNCHANGED <<command, tool_name, hook>>
    /\ UNCHANGED <<paramVars, marker, sessionVars, loopVars>>

\* The SDK calls the PreToolUse hook with a tool request.
Hook ==
    /\ gate = "asked"
    /\ hook' = validate_bash_hook(tool_name, command)
    /\ gate' = "hooked"
    /\ UNCHANGED <<command, tool_name, decision>>
    /\ UNCHANGED <<paramVars, marker, sessionVars, loopVars>>

\* ------------------------------------------------------------------------
\* How run_autonomous_agent is left
\* ------------------------------------------------------------------------

\* main's handlers around asyncio.run: KeyboardInterrupt -> sys.exit(0),
\* any other Exception -> sys.exit(1).
MainHandler(kind) == IF kind = "KeyboardInterrupt" THEN 0 ELSE 1

\* The loop is left by break or by its condition: the final summary is
\* printed and the function returns; main then ends with status 0.
Stop ==
    /\ pc' = "stopped"
    /\ reported' = <<iteration>>
    /\ exit_code' = IF caller = "main" THEN <<0>> ELSE exit_code
    /\ sleeping' = 0
    /\ UNCHANGED exc

\* An exception of the given kind, raised at the given site, leaves
\* run_autonomous_agent: no summary is printed.
Raise(kind, site) ==
    /\ pc' = "raised"
    /\ exc' = <<[kind |-> kind, site |-> site]>>
    /\ exit_code' = IF caller = "main" THEN <<MainHandler(kind)>> ELSE exit_code
    /\ sleeping' = 0
    /\ UNCHANGED reported

\* run_autonomous_agent starts: lines 112-113.
EnterLoop ==
    /\ iteration' = 0
    /\ is_first_run' = ~marker
    /\ pc' = "while"
    /\ UNCHANGED <<mode, sleeping, log, interrupted, exc, reported, exit_code>>

\* ------------------------------------------------------------------------
\* autonomous_agent.py: main
\* ------------------------------------------------------------------------

\* main validates the environment and the project directory and calls
\* run_autonomous_agent with MainCallKeywords; a keyword the function does
\* not declare is a TypeError raised by the call, caught by main's
\* "except Exception".
Main ==
    /\ pc = "main"
    /\ IF ~env_key \/ ~dir_exists
       THEN /\ pc' = "exited"
            /\ exit_code' = <<1>>
            /\ UNCHANGED <<iteration, is_first_run, mode, sleeping, log,
                           interrupted, exc, reported>>
       ELSE IF MainCallKeywords \subseteq RunAutonomousAgentParams
            THEN EnterLoop
            ELSE /\ pc' = "exited"
                 /\ exc' = <<[kind |-> "TypeError", site |-> "call"]>>
                 /\ exit_code' = <<MainHandler("TypeError")>>
                 /\ UNCHANGED <<iteration, is_first_run, mode, sleeping, log,
                                interrupted, reported>>
    /\ UNCHANGED <<gateVars, paramVars, marker, sessionVars>>

\* A caller other than main calls run_autonomous_agent(project_dir, model,
\* max_iterations, init_only).
Call ==
    /\ pc = "call"
    /\ EnterLoop
    /\ UNCHANGED <<gateVars, paramVars, marker, sessionVars>>

\* ------------------------------------------------------------------------
\* agent.py: run_autonomous_agent
\* ------------------------------------------------------------------------

\* The loop condition off by one.
LoopCondition_OffByOne == iteration <= max_iterations

\* while iteration < max_iterations
LoopCondition == iteration < max_iterations

\* The prompt selected from is_first_run: lines 122-127.
SelectMode == IF is_first_run THEN "INITIALIZER" ELSE "CODING"

\* The loop condition fails: the summary is printed.
LoopExit ==
    /\ pc = "while"
    /\ ~LoopCondition
    /\ Stop
    /\ UNCHANGED <<iteration, is_first_run, mode, log, interrupted>>
    /\ UNCHANGED <<gateVars, paramVars, marker, sessionVars>>

\* One more iteration: the counter advances, the prompt is loaded and
\* run_agent_session is called.
StartIteration ==
    /\ pc = "while"
    /\ LoopCondition
    /\ iteration' = iteration + 1
    /\ mode' = SelectMode
    /\ log' = Append(log, [mode |-> SelectMode, status |-> "running"])
    /\ pc' = "create_client"
    /\ UNCHANGED <<is_first_run, sleeping, interrupted, exc, reported, exit_code>>
    /\ UNCHANGED <<gateVars, paramVars, marker, sessionVars>>

\* One more iteration, but the prompt file is missing: load_prompt_file
\* raises FileNotFoundError, which nothing in the loop catches.
PromptFault ==
    /\ pc = "while"
    /\ LoopCondition
    /\ iteration' = iteration + 1
    /\ mode' = SelectMode
    /\ Raise("FileNotFoundError", "prompt")
    /\ UNCHANGED <<is_first_run, log, interrupted>>
    /\ UNCHANGED <<gateVars, paramVars, marker, sessionVars>>

\* ------------------------------------------------------------------------
\* agent.py: run_agent_session
\* ------------------------------------------------------------------------

\* The return statements of run_agent_session: the caller gets
\* (status, response); leaving "async with client" closes an open client.
SessionReturn_LeavesOpen(st, resp) ==
    /\ status' = st
    /\ response' = resp
    /\ log' = [log EXCEPT ![Len(log)].status = st]
    /\ pc' = "returned"
    /\ UNCHANGED <<client, clients, events, full_response>>

SessionReturn(st, resp) ==
    /\ status' = st
    /\ response' = resp
    /\ clients' = [clients EXCEPT ![client] = IF @ = "open" THEN "closed" ELSE @]
    /\ log' = [log EXCEPT ![Len(log)].status = st]
    /\ pc' = "returned"
    /\ UNCHANGED <<client, events, full_response>>

\* The messages of client.receive_response().
AssistantMessage(content) ==
    [type |-> "AssistantMessage", content |-> content, error |-> NoError]

ResultMessage(error) ==
    [type |-> "ResultMessage", content |-> <<>>, error |-> error]

\* The texts of a message's TextBlocks, in order: the appends of lines 69-72.
RECURSIVE TextsOf(_)
TextsOf(content) ==
    IF content = <<>> THEN <<>>
    ELSE IF Head(content).type = "TextBlock"
         THEN <<Head(content).text>> \o TextsOf(Tail(content))
         ELSE TextsOf(Tail(content))

\* "".join(full_response)
RECURSIVE Join(_)
Join(texts) == IF texts = <<>> THEN <<>> ELSE Head(texts) \o Join(Tail(texts))

\* client = create_client(...); full_response = []   (before the try)
CreateClient ==
    /\ pc = "create_client"
    /\ clients' = Append(clients, "created")
    /\ client' = Len(clients) + 1
    /\ events' = 0
    /\ received' = <<>>
    /\ full_response' = <<>>
    /\ pc' = "connect"
    /\ UNCHANGED <<status, response>>
    /\ UNCHANGED <<iteration, is_first_run, mode, sleeping, log, interrupted,
                   exc, reported, exit_code>>
    /\ UNCHANGED <<gateVars, paramVars, marker>>

\* create_client raises: line 57 stands before the try, so the exception
\* leaves run_agent_session and, uncaught in the loop, run_autonomous_agent.
CreateClientFault ==
    /\ pc = "create_client"
    /\ Raise("Exception", "create_client")
    /\ UNCHANGED <<iteration, is_first_run, mode, log, interrupted>>
    /\ UNCHANGED <<gateVars, paramVars, marker, sessionVars>>

\* async with client: the client connects.
Connect ==
    /\ pc = "connect"
    /\ clients' = [clients EXCEPT ![client] = "open"]
    /\ pc' = "query"
    /\ UNCHANGED <<client, events, received, full_response, status, response>>
    /\ UNCHANGED <<iteration, is_first_run, mode, sleeping, log, interrupted,
                   exc, reported, exit_code>>
    /\ UNCHANGED <<gateVars, paramVars, marker>>

\* await client.query(prompt)
Query ==
    /\ pc = "query"
    /\ pc' = "receive"
    /\ UNCHANGED sessionVars
    /\ UNCHANGED <<iteration, is_first_run, mode, sleeping, log, interrupted,
                   exc, reported, exit_code>>
    /\ UNCHANGED <<gateVars, paramVars, marker>>

\* The three awaits inside the try of run_agent_session.
InSession == pc \in {"connect", "query", "receive"}

\* An AssistantMessage arrives: its text blocks are appended.
ReceiveAssistant ==
    /\ pc = "receive"
    /\ events < MaxEvents
    /\ \E content \in Contents :
          /\ received' = Append(received, AssistantMessage(content))
          /\ full_response' = full_response \o TextsOf(content)
    /\ events' = events + 1
    /\ UNCHANGED <<client, clients, status, response>>
    /\ UNCHANGED loopVars
    /\ UNCHANGED <<gateVars, paramVars, marker>>

\* ReceiveResult that goes on receiving after a result with an error.
ReceiveResult_IgnoresError ==
    /\ pc = "receive"
    /\ events < MaxEvents
    /\ \E error \in ResultErrors :
          received' = Append(received, ResultMessage(error))
    /\ events' = events + 1
    /\ UNCHANGED <<client, clients, full_response, status, response>>
    /\ UNCHANGED loopVars
    /\ UNCHANGED <<gateVars, paramVars, marker>>

\* A ResultMessage arrives: with an error set the session returns
\* ("error", str(message.error)); otherwise the loop goes on.
ReceiveResult ==
    /\ pc = "receive"
    /\ events < MaxEvents
    /\ \E error \in ResultErrors :
          /\ received' = Append(received, ResultMessage(error))
          /\ IF error # NoError
             THEN /\ SessionReturn("error", error)
                  /\ UNCHANGED <<iteration, is_first_run, mode, sleeping,
                                 interrupted, exc, reported, exit_code>>
             ELSE /\ events' = events + 1
                  /\ UNCHANGED <<client, clients, full_response, status, response>>
                  /\ UNCHANGED loopVars
    /\ UNCHANGED <<gateVars, paramVars, marker>>

\* The response stream ends: return ("success", "".join(full_response)).
ReceiveEnd ==
    /\ pc = "receive"
    /\ SessionReturn("success", Join(full_response))
    /\ UNCHANGED received
    /\ UNCHANGED <<iteration, is_first_run, mode, sleeping, interrupted, exc,
                   reported, exit_code>>
    /\ UNCHANGED <<gateVars, paramVars, marker>>

\* An exception inside the try: except Exception -> ("error", str(e)).
SessionFault ==
    /\ InSession
    /\ SessionReturn("error", FaultText)
    /\ UNCHANGED received
    /\ UNCHANGED <<iteration, is_first_run, mode, sleeping, interrupted, exc,
                   reported, exit_code>>
    /\ UNCHANGED <<gateVars, paramVars, marker>>

\* An external interrupt is delivered as the code expects it: as a
\* KeyboardInterrupt raised at the await the driver is suspended in.
\* Here it arrives inside the try:
\* except KeyboardInterrupt -> ("interrupted", "User interrupted").
SessionInterrupt ==
    /\ InSession
    /\ interrupted' = TRUE
    /\ SessionReturn("interrupted", UserInterrupted)
    /\ UNCHANGED received
    /\ UNCHANGED <<iteration, is_first_run, mode, sleeping, exc, reported,
                   exit_code>>
    /\ UNCHANGED <<gateVars, paramVars, marker>>

\* ------------------------------------------------------------------------
\* agent.py: run_autonomous_agent, after the session
\* ------------------------------------------------------------------------

\* status == "interrupted": break
HandleInterrupted ==
    /\ pc = "returned"
    /\ status = "interrupted"
    /\ Stop
    /\ UNCHANGED <<iteration, is_first_run, mode, log, interrupted>>
    /\ UNCHANGED <<gateVars, paramVars, marker, sessionVars>>

\* HandleError that leaves the loop instead of retrying.
HandleError_Breaks ==
    /\ pc = "returned"
    /\ status = "error"
    /\ Stop
    /\ UNCHANGED <<iteration, is_first_run, mode, log, interrupted>>
    /\ UNCHANGED <<gateVars, paramVars, marker, sessionVars>>

\* status == "error": await asyncio.sleep(10); continue
HandleError ==
    /\ pc = "returned"
    /\ status = "error"
    /\ pc' = "error_sleep"
    /\ sleeping' = ERROR_RETRY_DELAY_SECONDS
    /\ UNCHANGED <<iteration, is_first_run, mode, log, interrupted, exc,
                   reported, exit_code>>
    /\ UNCHANGED <<gateVars, paramVars, marker, sessionVars>>

\* HandleSuccess without the init_only break of lines 154-156.
HandleSuccess_NoInitOnlyBreak ==
    /\ pc = "returned"
    /\ status = "success"
    /\ IF is_first_run
       THEN marker' = TRUE /\ is_first_run' = FALSE
       ELSE UNCHANGED <<marker, is_first_run>>
    /\ pc' = "wait_sleep"
    /\ sleeping' = AUTO_CONTINUE_DELAY_SECONDS
    /\ UNCHANGED <<exc, reported, exit_code>>
    /\ UNCHANGED <<iteration, mode, log, interrupted>>
    /\ UNCHANGED <<gateVars, paramVars, sessionVars>>

\* HandleSuccess that writes the marker after every successful session.
HandleSuccess_AlwaysMarks ==
    /\ pc = "returned"
    /\ status = "success"
    /\ marker' = TRUE
    /\ is_first_run' = FALSE
    /\ IF is_first_run /\ init_only
       THEN Stop
       ELSE /\ pc' = "wait_sleep"
            /\ sleeping' = AUTO_CONTINUE_DELAY_SECONDS
            /\ UNCHANGED <<exc, reported, exit_code>>
    /\ UNCHANGED <<iteration, mode, log, interrupted>>
    /\ UNCHANGED <<gateVars, paramVars, sessionVars>>

\* Success: after a first run the marker is written and is_first_run is
\* cleared, and init_only then leaves the loop; otherwise the
\* auto-continue sleep starts.
HandleSuccess ==
    /\ pc = "returned"
    /\ status = "success"
    /\ IF is_first_run
       THEN /\ marker' = TRUE
            /\ is_first_run' = FALSE
            /\ IF init_only
               THEN Stop
               ELSE /\ pc' = "wait_sleep"
                    /\ sleeping' = AUTO_CONTINUE_DELAY_SECONDS
                    /\ UNCHANGED <<exc, reported, exit_code>>
       ELSE /\ pc' = "wait_sleep"
            /\ sleeping' = AUTO_CONTINUE_DELAY_SECONDS
            /\ UNCHANGED <<marker, is_first_run, exc, reported, exit_code>>
    /\ UNCHANGED <<iteration, mode, log, interrupted>>
    /\ UNCHANGED <<gateVars, paramVars, sessionVars>>

\* mark_linear_initialized raises (the marker cannot be written): nothing
\* in the loop catches it.
MarkFault ==
    /\ pc = "returned"
    /\ status = "success"
    /\ is_first_run
    /\ Raise("OSError", "mark_linear_initialized")
    /\ UNCHANGED <<iteration, is_first_run, mode, log, interrupted>>
    /\ UNCHANGED <<gateVars, paramVars, marker, sessionVars>>

\* asyncio.sleep(10) ends: continue
ErrorSleepDone ==
    /\ pc = "error_sleep"
    /\ pc' = "while"
    /\ sleeping' = 0
    /\ UNCHANGED <<iteration, is_first_run, mode, log, interrupted, exc,
                   reported, exit_code>>
    /\ UNCHANGED <<gateVars, paramVars, marker, sessionVars>>

\* The interrupt arrives during asyncio.sleep(10): line 145 stands in no
\* try, so KeyboardInterrupt leaves run_autonomous_agent.
ErrorSleepInterrupt ==
    /\ pc = "error_sleep"
    /\ interrupted' = TRUE
    /\ Raise("KeyboardInterrupt", "error_sleep")
    /\ UNCHANGED <<iteration, is_first_run, mode, log>>
    /\ UNCHANGED <<gateVars, paramVars, marker, sessionVars>>

\* asyncio.sleep(AUTO_CONTINUE_DELAY_SECONDS) ends: next iteration
WaitSleepDone ==
    /\ pc = "wait_sleep"
    /\ pc' = "while"
    /\ sleeping' = 0
    /\ UNCHANGED <<iteration, is_first_run, mode, log, interrupted, exc,
                   reported, exit_code>>
    /\ UNCHANGED <<gateVars, paramVars, marker, sessionVars>>

\* The interrupt arrives during the auto-continue sleep:
\* except KeyboardInterrupt -> break
WaitSleepInterrupt ==
    /\ pc = "wait_sleep"
    /\ interrupted' = TRUE
    /\ Stop
    /\ UNCHANGED <<iteration, is_first_run, mode, log>>
    /\ UNCHANGED <<gateVars, paramVars, marker, sessionVars>>

\* ------------------------------------------------------------------------
\* The environment: the marker file is created or removed from outside
\* while the driver is suspended in an await.
\* ------------------------------------------------------------------------

Suspended == pc \in {"connect", "query", "receive", "error_sleep", "wait_sleep"}

EnvCreateMarker ==
    /\ Suspended
    /\ ~marker
    /\ marker' = TRUE
    /\ UNCHANGED <<gateVars, paramVars, sessionVars, loopVars>>

EnvRemoveMarker ==
    /\ Suspended
    /\ marker
    /\ marker' = FALSE
    /\ UNCHANGED <<gateVars, paramVars, sessionVars, loopVars>>

\* ------------------------------------------------------------------------
\* Specifications
\* ------------------------------------------------------------------------

Driver ==
    \/ Main
    \/ Call
    \/ LoopExit
    \/ StartIteration
    \/ PromptFault
    \/ CreateClient
    \/ CreateClientFault
    \/ Connect
    \/ Query
    \/ ReceiveAssistant
    \/ ReceiveResult
    \/ ReceiveEnd
    \/ SessionFault
    \/ SessionInterrupt
    \/ HandleInterrupted
    \/ HandleError
    \/ HandleSuccess
    \/ MarkFault
    \/ ErrorSleepDone
    \/ ErrorSleepInterrupt
    \/ WaitSleepDone
    \/ WaitSleepInterrupt

Environment == EnvCreateMarker \/ EnvRemoveMarker

Next == Driver \/ Environment

\* The driver and its environment.
Spec == Init /\ [][Next]_vars

\* The same, with the event loop running the driver whenever it can take a
\* step: sleeps end, and the agent's response stream is finite.
FairSpec == Spec /\ WF_vars(Driver)

GateNext == Evaluate \/ Hook

\* The command gate asked about each command of Commands.
GateSpec == GateInit /\ [][GateNext]_vars

\* ------------------------------------------------------------------------
\* Vocabulary of the claims
\* ------------------------------------------------------------------------

\* The command holds pattern p at some offset, letters compared without case.
HoldsFragment(c, p) ==
    \E i \in 0..(Len(c) - Len(p)) :
        \A j \in 1..Len(p) : LowerChar(c[i + j]) = LowerChar(p[j])

HasBlockedFragment(c) ==
    \E k \in 1..Len(BLOCKED_PATTERNS) : HoldsFragment(c, BLOCKED_PATTERNS[k])

\* A NAME=value token: it holds "=" and does not start with "-".
IsAssignment(tok) == HasEquals(tok) /\ ~StartsWithDash(tok)

RECURSIVE DropAssignments(_)
DropAssignments(toks) ==
    IF toks = <<>> THEN <<>>
    ELSE IF IsAssignment(Head(toks)) THEN DropAssignments(Tail(toks))
    ELSE toks

\* What follows the last "/" of a token.
RECURSIVE AfterLastSlash(_)
AfterLastSlash(tok) ==
    IF \A i \in 1..Len(tok) : tok[i] # "/" THEN tok
    ELSE AfterLastSlash(Tail(tok))

\* The base command name as the specification describes it: the first
\* whitespace token that is no assignment, without its directory prefix.
BaseName(c) ==
    LET rest == DropAssignments(Split(c))
    IN  IF rest = <<>> THEN <<>> ELSE AfterLastSlash(Head(rest))

\* The characters that separate the commands of a shell command line:
\* ";", "|" and "||", "&&".
Separators == {";", "|", "&"}

RECURSIVE SegmentsFrom(_, _, _, _)
SegmentsFrom(s, i, cur, acc) ==
    IF i > Len(s) THEN Append(acc, cur)
    ELSE IF s[i] \in Separators
         THEN SegmentsFrom(s, i + 1, <<>>, Append(acc, cur))
         ELSE SegmentsFrom(s, i + 1, Append(cur, s[i]), acc)

\* The programs a command line invokes: the base command of each of its
\* separated commands.
ProgramsInvoked(c) ==
    LET segs == SegmentsFrom(c, 1, <<>>, <<>>)
    IN  {BaseName(segs[k]) : k \in 1..Len(segs)} \ {<<>>}

Downloaders == {<<"c", "u", "r", "l">>, <<"w", "g", "e", "t">>}

Shells == {<<"b", "a", "s", "h">>, <<"s", "h">>}

\* "curl <args> | bash": a downloader, any arguments, a pipe, a shell.
IsDownloadPipedToShell(c) ==
    LET toks == Split(c)
    IN  /\ Len(toks) >= 3
        /\ toks[1] \in Downloaders
        /\ \E k \in 2..(Len(toks) - 1) :
              /\ toks[k] = <<"|">>
              /\ toks[k + 1] \in Shells
              /\ \A j \in 2..(k - 1) : toks[j] # <<"|">>

IsPrefixOf(p, s) == Len(p) <= Len(s) /\ SubSeq(s, 1, Len(p)) = p

Outcomes == {"success", "error", "interrupted"}

Terminated == pc \in {"stopped", "raised", "exited"}

LastSession == log[Len(log)]

\* ------------------------------------------------------------------------
\* Claims about the command gate (GateSpec)
\* ------------------------------------------------------------------------

\* C1: a command that holds a fragment of BLOCKED_PATTERNS, compared
\* without case, is never allowed, whatever its base command name is.
C1_BlockedFragmentDenied ==
    (gate = "decided" /\ HasBlockedFragment(command)) => decision[1] = FALSE

\* C1 witness: a denied command whose base command is allowlisted and that
\* holds a blocked fragment only when case is ignored.
C1_Witness ==
    /\ gate = "decided"
    /\ HasBlockedFragment(command)
    /\ \A k \in 1..Len(BLOCKED_PATTERNS) : ~IsSubstring(BLOCKED_PATTERNS[k], command)
    /\ BaseName(command) \in ALLOWED_COMMANDS
    /\ decision[1] = FALSE

\* C2: every command "curl <args> | bash" (curl or wget piped into bash or
\* sh, whatever the arguments) is denied with a blocked-pattern reason.
C2_PipeToShellDenied ==
    (gate = "decided" /\ IsDownloadPipedToShell(command))
        => (decision[1] = FALSE /\ IsPrefixOf(BlockedReasonPrefix, decision[2]))

C4_AllowlistDecides ==
    (/\ gate = "decided"
     /\ ~IsBlank(command)
     /\ ~HasBlockedFragment(command)
     /\ BaseName(command) # <<>>)
        => IF BaseName(command) \in ALLOWED_COMMANDS
           THEN decision = <<TRUE, <<>>>>
           ELSE decision = <<FALSE, NotAllowedPrefix \o BaseName(command) \o NotAllowedSuffix>>

\* C4 witness: an allowed command whose program follows an assignment and
\* carries a directory prefix.
C4_Witness ==
    /\ gate = "decided"
    /\ decision = <<TRUE, <<>>>>
    /\ Len(Split(command)) >= 2
    /\ IsAssignment(Split(command)[1])
    /\ \E i \in 1..Len(Split(command)[2]) : Split(command)[2][i] = "/"
    /\ BaseName(command) \in ALLOWED_COMMANDS

\* ------------------------------------------------------------------------
\* Claims about the loop (Spec, FairSpec)
\* ------------------------------------------------------------------------

\* C5: a run with max_iterations = N ends, and calls run_agent_session at
\* most N times; the iteration counter never decreases, advances by one
\* with each session, and counts the sessions that ended in error.
C5_BoundedLoop ==
    /\ [](Len(log) <= iteration /\ iteration <= max_iterations)
    /\ [][/\ iteration' \in {iteration, iteration + 1}
          /\ Len(log') \in {Len(log), Len(log) + 1}
          /\ (Len(log') = Len(log) + 1) =>
                (iteration' = iteration + 1 /\ iteration' = Len(log'))]_vars
    /\ <>Terminated

\* C5 witness: a run of N >= 2 sessions, one of them ended in error, that
\* stopped because the counter reached N.
C5_Witness ==
    /\ pc = "stopped"
    /\ max_iterations >= 2
    /\ Len(log) = max_iterations
    /\ \E k \in 1..Len(log) : log[k].status = "error"
    /\ LastSession.status = "success"

\* C6: started from the command line with --skip-init (valid environment
\* and project directory, at least one iteration), the loop is entered,
\* every session runs in CODING mode, and a run that stops has run one.
C6_SkipInitRunsCoding ==
    (caller = "main" /\ skip_init /\ env_key /\ dir_exists /\ max_iterations >= 1)
        => /\ pc # "exited"
           /\ \A k \in 1..Len(log) : log[k].mode = "CODING"
           /\ (pc = "stopped" => Len(log) >= 1)

\* C7: once an external interrupt has been delivered at a suspension point,
\* the loop is on its way to STOPPED or there: no exception has left
\* run_autonomous_agent and the summary reports the iteration count.
C7_InterruptStopsCleanly ==
    interrupted =>
        /\ exc = <<>>
        /\ pc \in {"returned", "stopped"}
        /\ (pc = "returned" => status = "interrupted")
        /\ (pc = "stopped" => reported = <<iteration>>)

\* C8: every call of run_agent_session returns one of the three outcomes:
\* when the run is over, no session is left without one.
C8_SessionAlwaysReturns ==
    Terminated => \A k \in 1..Len(log) : log[k].status \in Outcomes

\* C9: with init_only and the project not initialized at start, the first
\* session that succeeds in INITIALIZER mode is the last session: the loop
\* is left right after it, with the marker present when it stops; a
\* session that ended in error stops the loop only at the last iteration.
C9_InitOnlyStopsAfterInit ==
    (init_only /\ Len(log) >= 1 /\ log[1].mode = "INITIALIZER")
        => /\ \A k \in 1..Len(log) :
                (log[k].mode = "INITIALIZER" /\ log[k].status = "success")
                    => /\ k = Len(log)
                       /\ pc \in {"returned", "stopped", "raised"}
                       /\ (pc = "stopped" => marker)
           /\ (pc = "stopped" /\ LastSession.status = "error")
                => iteration = max_iterations

\* C9 witness: an init-only run that stopped before its last iteration,
\* after an INITIALIZER session that failed and one that succeeded.
C9_Witness ==
    /\ init_only
    /\ pc = "stopped"
    /\ Len(log) = 2
    /\ Len(log) < max_iterations
    /\ log[1] = [mode |-> "INITIALIZER", status |-> "error"]
    /\ log[2] = [mode |-> "INITIALIZER", status |-> "success"]
    /\ marker

\* C10: in a run with init_only no session is started in CODING mode.
C10_InitOnlyNeverCodes ==
    init_only => \A k \in 1..Len(log) : log[k].mode # "CODING"

\* C11: a session that ended in error does not stop the loop: the backoff
\* sleep follows, and at an iteration below max_iterations it leads to the
\* next session, in the same mode, unless an interrupt or a fault outside
\* the session ends the run; a run stops after an error only at the last
\* iteration.
C11_ErrorIsRetried ==
    /\ []((pc = "stopped" /\ Len(log) >= 1 /\ LastSession.status = "error")
            => iteration = max_iterations)
    /\ [](\A k \in 1..(Len(log) - 1) :
            log[k].status = "error" => log[k + 1].mode = log[k].mode)
    /\ [][(pc = "returned" /\ status = "error")
            => (pc' = "error_sleep" /\ sleeping' = ERROR_RETRY_DELAY_SECONDS)]_vars
    /\ [][(pc = "error_sleep" /\ pc' # "error_sleep")
            => (pc' = "while" \/ (pc' = "raised" /\ interrupted'))]_vars
    /\ (pc = "returned" /\ status = "error" /\ iteration < max_iterations)
          ~> (pc = "raised" \/ (pc = "create_client" /\ Len(log) = iteration))

\* C11 witness: an INITIALIZER session ended in error below the last
\* iteration, and a second INITIALIZER session has started, the marker
\* still absent.
C11_Witness ==
    /\ Len(log) = 2
    /\ log[1] = [mode |-> "INITIALIZER", status |-> "error"]
    /\ log[2] = [mode |-> "INITIALIZER", status |-> "running"]
    /\ ~marker
    /\ pc = "create_client"

\* C12: a session that starts while the marker exists runs in CODING
\* mode: no INITIALIZER session is started with the marker present.
C12_InitializedMeansCoding ==
    (pc = "create_client" /\ marker) => mode = "CODING"

\* C13: no step of the driver removes the marker, and the driver creates
\* it only when handling the success of an INITIALIZER session: under the
\* loop's own steps, once the marker exists it stays.
C13_MarkerMonotonic ==
    [][Driver =>
          /\ (marker => marker')
          /\ (~marker /\ marker') =>
                /\ pc = "returned"
                /\ status = "success"
                /\ LastSession = [mode |-> "INITIALIZER", status |-> "success"]]_vars

\* C13 witness: the marker written after the success of an INITIALIZER
\* session that followed a failed one.
C13_Witness ==
    /\ marker
    /\ pc = "wait_sleep"
    /\ Len(log) = 2
    /\ log[1] = [mode |-> "INITIALIZER", status |-> "error"]
    /\ log[2] = [mode |-> "INITIALIZER", status |-> "success"]

\* ------------------------------------------------------------------------
\* Claims about the command gate, continued (GateSpec)
\* ------------------------------------------------------------------------

\* Directory prefixes "p/" put before a command.
DirPrefixes ==
    { <<"/", "u", "s", "r", "/", "b", "i", "n", "/">>,
      <<"/", "a", "=", "b", "/">>,
      <<"/", "o", "p", "t", "/", "s", "u", "d", "o", "/">> }

\* The command is prefix p followed by a command "name args".
PrefixedBy(p) ==
    /\ IsPrefixOf(p, command)
    /\ Len(command) > Len(p)
    /\ command[Len(p) + 1] \notin Whitespace

\* The command without its prefix p.
Unprefixed(p) == SubSeq(command, Len(p) + 1, Len(command))

\* C14 as stated: for every directory prefix p, the gate decides
\* p/"name args" as it decides "name args".
C14_PathPrefixKeepsDecision ==
    gate = "decided" =>
        \A p \in DirPrefixes :
            PrefixedBy(p) => decision[1] = is_command_allowed(Unprefixed(p))[1]

\* C14 as amended: the same, for a prefixed program token that holds no
\* "=" and a prefix that brings no blocked fragment into the command.
C14_PlainPathPrefixKeepsDecision ==
    gate = "decided" =>
        \A p \in DirPrefixes :
            (/\ PrefixedBy(p)
             /\ ~HasEquals(Head(Split(command)))
             /\ HasBlockedFragment(command) = HasBlockedFragment(Unprefixed(p)))
                => decision[1] = is_command_allowed(Unprefixed(p))[1]

\* C14 witness: an allowed command whose program token carries a
\* directory prefix and is followed by an argument.
C14_Witness ==
    /\ gate = "decided"
    /\ \E p \in DirPrefixes :
          /\ PrefixedBy(p)
          /\ ~HasEquals(Head(Split(command)))
          /\ ~HasBlockedFragment(command)
          /\ is_command_allowed(Unprefixed(p))[1]
    /\ Len(Split(command)) >= 2
    /\ decision[1]

\* The number of leading NAME=value tokens.
RECURSIVE LeadingAssignments(_)
LeadingAssignments(toks) ==
    IF toks = <<>> \/ ~IsAssignment(Head(toks)) THEN 0
    ELSE 1 + LeadingAssignments(Tail(toks))

NodeEnvNpmTest ==
    <<"N", "O", "D", "E", "_", "E", "N", "V", "=", "t", "e", "s", "t", " ", "n", "p", "m", " ", "t", "e", "s", "t">>

NodeEnvSudoNpmTest ==
    <<"N", "O", "D", "E", "_", "E", "N", "V", "=", "t", "e", "s", "t", " ", "s", "u", "d", "o", " ", "n", "p", "m", " ", "t", "e", "s", "t">>

FooBazGitStatus ==
    <<"F", "O", "O", "=", "b", "a", "r", " ", "B", "A", "Z", "=", "q", "u", "x", " ", "g", "i", "t", " ", "s", "t", "a", "t", "u", "s">>

\* C15: the base command name of a command with any number of leading
\* NAME=value tokens is that of the first token after them; a command of
\* assignment tokens only (and no blocked fragment) is denied as
\* unparseable; "NODE_ENV=test npm test" is allowed, "FOO=bar BAZ=qux git
\* status" resolves to git, "NODE_ENV=test sudo npm test" is denied on the
\* blocklist.
C15_AssignmentsSkipped ==
    gate = "decided" =>
        LET toks == Split(command)
            lead == LeadingAssignments(toks)
        IN  /\ lead < Len(toks) =>
                  get_command_name(command) = get_command_name(toks[lead + 1])
            /\ lead = Len(toks) => get_command_name(command) = <<>>
            /\ (lead = Len(toks) /\ lead >= 1 /\ ~HasBlockedFragment(command))
                  => decision = <<FALSE, UnparsedReason>>
            /\ command = NodeEnvNpmTest => decision = <<TRUE, <<>>>>
            /\ command = FooBazGitStatus =>
                  get_command_name(command) = <<"g", "i", "t">>
            /\ command = NodeEnvSudoNpmTest =>
                  decision = <<FALSE, BlockedReasonPrefix \o <<"s", "u", "d", "o">>>>

\* C15 witness: an allowed command with two leading assignments.
C15_Witness ==
    /\ gate = "decided"
    /\ LeadingAssignments(Split(command)) = 2
    /\ Len(Split(command)) >= 3
    /\ decision = <<TRUE, <<>>>>

\* C16: for a Bash request the hook denies, with a reason that is not empty
\* and holds the gate's reason, whenever is_command_allowed denies the
\* command (the empty and the blank command included) and allows only when
\* the gate allows; the gate's reason is empty exactly when it allows.
C16_DenialCarriesReason ==
    (gate = "hooked" /\ tool_name = "Bash") =>
        LET result == is_command_allowed(command)
        IN  /\ ~result[1] =>
                  /\ hook.permissionDecision = "deny"
                  /\ hook.permissionDecisionReason # <<>>
                  /\ IsSubstring(result[2], hook.permissionDecisionReason)
            /\ result[1] => hook = HookAllow
            /\ (result[2] = <<>>) <=> result[1]

\* C16 witness: a Bash request with a blank, non-empty command, denied.
C16_Witness ==
    /\ gate = "hooked"
    /\ tool_name = "Bash"
    /\ command # <<>>
    /\ IsBlank(command)
    /\ hook.permissionDecision = "deny"
    /\ IsSubstring(EmptyCommandReason, hook.permissionDecisionReason)

\* C17: a process started by main ends with status 1 and without a session
\* when LINEAR_API_KEY or the project directory is missing; with both
\* present main enters the loop, and the process ends with status 0 when the
\* loop stops or is interrupted and with status 1 when another exception
\* leaves the loop, so a run without any exception ends with status 0.
C17_ExitCodes ==
    (caller = "main" /\ Terminated) =>
        /\ (~env_key \/ ~dir_exists) =>
              pc = "exited" /\ exit_code = <<1>> /\ log = <<>>
        /\ (env_key /\ dir_exists) =>
              /\ pc \in {"stopped", "raised"}
              /\ pc = "stopped" => exit_code = <<0>>
              /\ pc = "raised" =>
                    exit_code = <<IF exc[1].kind = "KeyboardInterrupt"
                                  THEN 0 ELSE 1>>
              /\ exc = <<>> => exit_code = <<0>>

\* C18: every iteration selects its mode from the marker as it is at that
\* moment and from skip_init: the mode of a starting iteration is
\* INITIALIZER exactly when skip_init is false and the marker is absent.
C18_ModeRecomputed ==
    [][(pc = "while" /\ pc' = "create_client") =>
          (mode' = "INITIALIZER" <=> (~skip_init /\ ~marker))]_vars

\* A result message that carries an error.
CarriesError(message) ==
    message.type = "ResultMessage" /\ message.error # NoError

\* The text of the text blocks of a content, the last block first taken off.
RECURSIVE BlockText(_)
BlockText(content) ==
    IF content = <<>> THEN <<>>
    ELSE LET last == content[Len(content)]
             front == SubSeq(content, 1, Len(content) - 1)
         IN  BlockText(front) \o
             (IF last.type = "TextBlock" THEN last.text ELSE <<>>)

\* The text events of a sequence of messages, concatenated in arrival order.
RECURSIVE Payload(_)
Payload(messages) ==
    IF messages = <<>> THEN <<>>
    ELSE LET last == messages[Len(messages)]
             front == SubSeq(messages, 1, Len(messages) - 1)
         IN  Payload(front) \o
             (IF last.type = "AssistantMessage" THEN BlockText(last.content)
              ELSE <<>>)

\* A content without its tool-use and tool-result blocks.
TextOnly(content) == SelectSeq(content, LAMBDA b : b.type = "TextBlock")

\* C19: a result message that carries an error is the last message its
\* session consumes, and the session has then returned ("error", that
\* error) whatever text came before; a session that returned success
\* consumed no such message and returned the concatenation of all text
\* blocks in arrival order, the same with the tool blocks left out.
C19_ErrorResultShortCircuits ==
    /\ \A i \in 1..Len(received) :
          CarriesError(received[i]) =>
              /\ i = Len(received)
              /\ pc # "receive"
              /\ status = "error"
              /\ response = received[i].error
    /\ (pc = "returned" /\ status = "success") =>
          /\ \A i \in 1..Len(received) : ~CarriesError(received[i])
          /\ response = Payload(received)
          /\ response =
                Payload([i \in 1..Len(received) |->
                           [received[i] EXCEPT !.content = TextOnly(@)]])

\* C19 witness: a session that returned the error of a result message
\* after text had been accumulated.
C19_Witness ==
    /\ pc = "returned"
    /\ status = "error"
    /\ Len(received) > 1
    /\ CarriesError(received[Len(received)])
    /\ response = received[Len(received)].error
    /\ full_response # <<>>

\* The clients that are open.
OpenClients == {i \in 1..Len(clients) : clients[i] = "open"}

\* C20: at most one client is open at any time; an open client is the
\* newest one, created by the one session that is running, which is
\* querying or receiving; the k-th session uses the k-th client and no
\* other; when a session has returned, with whatever outcome, its client
\* is not open (it is closed if the session succeeded or consumed a
\* message, and was never opened otherwise), and none is open when the
\* next session starts.
C20_OneContextPerSession ==
    /\ Cardinality(OpenClients) <= 1
    /\ \A i \in OpenClients :
          i = client /\ i = Len(clients) /\ pc \in {"query", "receive"}
    /\ client = Len(clients)
    /\ InSession => (client = Len(log) /\ clients[client] # "closed")
    /\ pc \in {"returned", "create_client"} => OpenClients = {}
    /\ (pc = "returned" /\ (status = "success" \/ received # <<>>)) =>
          clients[client] = "closed"

\* C20 witness: a second session has opened its client after the first
\* session's client was opened and closed.
C20_Witness ==
    /\ pc = "receive"
    /\ Len(clients) = 2
    /\ clients = <<"closed", "open">>
    /\ log[1].status \in Outcomes

====
